---- MODULE Spec2Model ----
(***************************************************************************)
(* OracleBot: a Slack bot that maps every conversation thread to one named *)
(* Modal sandbox (src/main.py), runs one agent turn per message inside it, *)
(* and lets the sandbox reach the Anthropic API only through a proxy that  *)
(* exchanges the sandbox id for the real key (src/proxy.py).               *)
(*                                                                         *)
(* Five specifications share the variables:                                *)
(*   Spec       the message handlers (process_message) racing on the       *)
(*              sandbox platform, with external reclamation of sandboxes;  *)
(*   SpecProxy  the proxy handler against the sandbox platform and the     *)
(*              upstream API;                                              *)
(*   SpecTurn   run_agent_turn consuming the two output channels of the    *)
(*              agent process;                                             *)
(*   SpecSession  one handler thread serving event after event, each call  *)
(*              followed through repository bootstrap, /data link and the  *)
(*              agent's session record (src/agent/agent_entrypoint.py);    *)
(*   SpecEvents the Slack listeners deciding which events reach            *)
(*              process_message.                                           *)
(***************************************************************************)
EXTENDS Integers, Sequences, FiniteSets, TLC

(***************************************************************************)
(* Bounds of the model.                                                    *)
(***************************************************************************)
NumHandlers == 2
NumThreads == 2
MaxSandboxes == 3
MaxStdoutLines == 3
MaxStderrLines == 3
NumSessionIds == 2
MaxInstallsCounted == 2

(***************************************************************************)
(* Values shared by the three parts.                                       *)
(***************************************************************************)
Absent == "Absent"
NoName == <<>>
NotFound == 0
RcNone == -1

NoRequest == [method |-> "", path |-> "", headers |-> <<>>, body |-> ""]
NoResponse == [status_code |-> 0, content |-> "", media_type |-> ""]

Handlers == 1..NumHandlers
Teams == {"T1"}
ThreadTimestamp(i) == "17000000" \o ToString(i) \o ".0001"
Timestamps == {ThreadTimestamp(i) : i \in 1..NumThreads}
ClientMsgIds == {"m1"}

\* returncode of a sandbox that was terminated by the platform
\* (idle timeout, maximum lifetime, explicit terminate)
TerminatedCode == 137

\* sandboxes                the platform's sandboxes, by object id
\* processed_events         the module-level set _processed_events
\* pc, event_id,
\* sandbox_name, sb,
\* is_new_session           position and locals of each process_message call
\* posted                   the status text each call posted to its thread
\* viaFallback              history: the call went through the fallback lookup
\* proxyPc, request,
\* headers, response        position and locals of the proxy request in flight
\* upstreamCalls            the requests the upstream received for it
\* tokenDeadAtReceive       history: the token's sandbox had already
\*                          terminated when the request arrived
\* turnPc, fragments        position of run_agent_turn and what it yielded
\* stdoutRead, stderrRead,
\* exit_code                what the agent process produced
\* fs                       the filesystem of each sandbox: the working copy,
\*                          the /data link, how often dependencies were installed
\* volume                   the sessions.json of each directory of the shared volume
\* clone_exit_code, bootLog the exit code of git clone and the commands that
\*                          clone_or_update_repo ran, per call
\* resume                   the session id the agent of a call loaded
\* result_session_id        the session id of the ResultMessage the agent of a
\*                          call received, Absent while there is none
\* returned, savedIn        history: the session id the last ResultMessage of a
\*                          session carried, and the sandbox it was received in
\* listener, kind, event,
\* history, passed          position, name and locals of the Slack listener in flight,
\*                          and whether it called process_message
\* roots                    the text of the first message of every thread
VARIABLES
    sandboxes,
    processed_events,
    pc,
    event_id,
    sandbox_name,
    sb,
    is_new_session,
    posted,
    viaFallback,
    proxyPc,
    request,
    headers,
    upstreamCalls,
    response,
    tokenDeadAtReceive,
    turnPc,
    stdoutRead,
    stderrRead,
    exit_code,
    fragments,
    fs,
    volume,
    clone_exit_code,
    bootLog,
    resume,
    result_session_id,
    returned,
    savedIn,
    listener,
    kind,
    event,
    history,
    passed,
    roots

brokerVars == <<processed_events, pc, event_id, sandbox_name, sb, is_new_session,
                posted, viaFallback>>
proxyVars == <<proxyPc, request, headers, upstreamCalls, response, tokenDeadAtReceive>>
turnVars == <<turnPc, stdoutRead, stderrRead, exit_code, fragments>>
sessionVars == <<fs, volume, clone_exit_code, bootLog, resume, result_session_id,
                 returned, savedIn>>
eventVars == <<listener, kind, event, history, passed, roots>>
vars == <<sandboxes, brokerVars, proxyVars, turnVars, sessionVars, eventVars>>

(***************************************************************************)
(* The sandbox platform. A sandbox has an object id (its index in          *)
(* sandboxes), the name it was created under, and a returncode that is     *)
(* RcNone (Python's None) while it runs. owner is the session identity on  *)
(* whose behalf it was created (bookkeeping: the platform does not see it).*)
(***************************************************************************)
SandboxIds == 1..Len(sandboxes)

Running(id) == sandboxes[id].returncode = RcNone

RunningNamed(name) == {id \in SandboxIds : Running(id) /\ sandboxes[id].name = name}

\* modal.Sandbox.from_name: the running sandbox of that name, or NotFoundError
from_name(name) ==
    IF RunningNamed(name) = {} THEN NotFound
    ELSE CHOOSE id \in RunningNamed(name) : \A other \in RunningNamed(name) : id >= other

\* modal.Sandbox.create(name=...): AlreadyExistsError when a running sandbox
\* holds the name; only one creator of a name wins
create_outcome(name) ==
    IF name # NoName /\ RunningNamed(name) # {} THEN "AlreadyExistsError" ELSE "created"

(***************************************************************************)
(* process_message, src/main.py                                            *)
(***************************************************************************)
MaxProcessedEvents == 1000

Bodies ==
    [team_id : Teams,
     ts : Timestamps,
     thread_ts : Timestamps \cup {Absent},
     client_msg_id : ClientMsgIds \cup {Absent}]

\* event_id = body["event"].get("client_msg_id") or body["event"]["ts"]
EventId(body) ==
    IF body.client_msg_id # Absent THEN body.client_msg_id ELSE body.ts

\* thread_ts = body["event"].get("thread_ts", body["event"]["ts"])
ThreadTs(body) == IF body.thread_ts # Absent THEN body.thread_ts ELSE body.ts

\* sandbox_name = f"oracle-{body['team_id']}-{thread_ts}".replace(".", "-")
SandboxName(body) == <<"oracle", body.team_id, ThreadTs(body)>>

SessionNames == {<<"oracle", team, ts>> : team \in Teams, ts \in Timestamps}

\* fault: the flag starts out True
InitialIsNewMutant == TRUE
\* is_new_session = False, before the lookup
InitialIsNew == FALSE

\* fault: the flag is not set when the lookup found nothing
NotFoundIsNewMutant == FALSE
\* is_new_session = True, in the except NotFoundError branch
NotFoundIsNew == TRUE

\* fault: the flag is not reset when the creation lost the race
FallbackIsNewMutant == TRUE
\* is_new_session = False, after the AlreadyExistsError fallback
FallbackIsNew == FALSE

\* fault: the sandbox is created without a name
CreateNameMutant(name) == NoName
\* the name= argument of modal.Sandbox.create
CreateName(name) == name

\* fault: the set is never cleared
KeepBoundedMutant(events) == events
\* if len(_processed_events) > 1000: _processed_events.clear()
KeepBounded(events) ==
    IF Cardinality(events) > MaxProcessedEvents THEN {} ELSE events

Resolved == {"status", "turn", "link", "agent", "running", "done"}

\* entry of process_message: the membership test on _processed_events, and
\* the derivation of the names. Handlers run on threads, so the test and the
\* add that follows it are separate steps.
Dedup(h) ==
    /\ pc[h] = "idle"
    /\ \E body \in Bodies :
        IF EventId(body) \in processed_events
        THEN /\ pc' = [pc EXCEPT ![h] = "skipped"]
             /\ UNCHANGED <<event_id, sandbox_name>>
        ELSE /\ event_id' = [event_id EXCEPT ![h] = EventId(body)]
             /\ sandbox_name' = [sandbox_name EXCEPT ![h] = SandboxName(body)]
             /\ pc' = [pc EXCEPT ![h] = "add"]
    /\ UNCHANGED <<sandboxes, processed_events, sb, is_new_session, posted, viaFallback>>
    /\ UNCHANGED <<proxyVars, turnVars, sessionVars, eventVars>>

\* _processed_events.add(event_id); the call does not use event_id again
DedupAdd(h) ==
    /\ pc[h] = "add"
    /\ processed_events' = processed_events \cup {event_id[h]}
    /\ event_id' = [event_id EXCEPT ![h] = ""]
    /\ pc' = [pc EXCEPT ![h] = "bound"]
    /\ UNCHANGED <<sandboxes, sandbox_name, sb, is_new_session, posted, viaFallback>>
    /\ UNCHANGED <<proxyVars, turnVars, sessionVars, eventVars>>

\* the step that keeps the set bounded
DedupBound(h) ==
    /\ pc[h] = "bound"
    /\ processed_events' = KeepBounded(processed_events)
    /\ pc' = [pc EXCEPT ![h] = "lookup"]
    /\ UNCHANGED <<sandboxes, event_id, sandbox_name, sb, is_new_session, posted,
                   viaFallback>>
    /\ UNCHANGED <<proxyVars, turnVars, sessionVars, eventVars>>

\* sb = modal.Sandbox.from_name(...) / except NotFoundError
Lookup(h) ==
    /\ pc[h] = "lookup"
    /\ IF from_name(sandbox_name[h]) # NotFound
       THEN /\ sb' = [sb EXCEPT ![h] = from_name(sandbox_name[h])]
            /\ is_new_session' = [is_new_session EXCEPT ![h] = InitialIsNew]
            /\ pc' = [pc EXCEPT ![h] = "status"]
       ELSE /\ is_new_session' = [is_new_session EXCEPT ![h] = NotFoundIsNew]
            /\ pc' = [pc EXCEPT ![h] = "create"]
            /\ UNCHANGED sb
    /\ UNCHANGED <<sandboxes, processed_events, event_id, sandbox_name, posted, viaFallback>>
    /\ UNCHANGED <<proxyVars, turnVars, sessionVars, eventVars>>

\* sb = modal.Sandbox.create(..., name=sandbox_name) / except AlreadyExistsError
Create(h) ==
    /\ pc[h] = "create"
    /\ IF create_outcome(CreateName(sandbox_name[h])) = "created"
       THEN /\ Len(sandboxes) < MaxSandboxes
            /\ sandboxes' = Append(sandboxes,
                    [name |-> CreateName(sandbox_name[h]),
                     owner |-> sandbox_name[h],
                     returncode |-> RcNone])
            /\ sb' = [sb EXCEPT ![h] = Len(sandboxes) + 1]
            /\ pc' = [pc EXCEPT ![h] = "status"]
       ELSE /\ pc' = [pc EXCEPT ![h] = "fallback"]
            /\ UNCHANGED <<sandboxes, sb>>
    /\ UNCHANGED <<processed_events, event_id, sandbox_name, is_new_session,
                   posted, viaFallback>>
    /\ UNCHANGED <<proxyVars, turnVars, sessionVars, eventVars>>

\* the except AlreadyExistsError branch: second from_name, outside any try
Fallback(h) ==
    /\ pc[h] = "fallback"
    /\ viaFallback' = [viaFallback EXCEPT ![h] = TRUE]
    /\ IF from_name(sandbox_name[h]) # NotFound
       THEN /\ sb' = [sb EXCEPT ![h] = from_name(sandbox_name[h])]
            /\ is_new_session' = [is_new_session EXCEPT ![h] = FallbackIsNew]
            /\ pc' = [pc EXCEPT ![h] = "status"]
       ELSE /\ pc' = [pc EXCEPT ![h] = "raised"]
            /\ UNCHANGED <<sb, is_new_session>>
    /\ UNCHANGED <<sandboxes, processed_events, event_id, sandbox_name, posted>>
    /\ UNCHANGED <<proxyVars, turnVars, sessionVars, eventVars>>

\* post_status(..., "New sandbox") or post_status(..., "Reusing sandbox")
PostStatus(h) ==
    /\ pc[h] = "status"
    /\ posted' = [posted EXCEPT ![h] =
                    IF is_new_session[h] THEN "New sandbox" ELSE "Reusing sandbox"]
    /\ pc' = [pc EXCEPT ![h] = "turn"]
    /\ UNCHANGED <<sandboxes, processed_events, event_id, sandbox_name, sb, is_new_session,
                   viaFallback>>
    /\ UNCHANGED <<proxyVars, turnVars, sessionVars, eventVars>>

\* the platform ends a running sandbox (idle_timeout, timeout)
Reclaim(id) ==
    /\ id \in SandboxIds
    /\ Running(id)
    /\ sandboxes' = [sandboxes EXCEPT ![id].returncode = TerminatedCode]
    /\ UNCHANGED <<brokerVars, proxyVars, turnVars, sessionVars, eventVars>>

(***************************************************************************)
(* The rest of process_message, followed step by step: clone_or_update_repo*)
(* (src/main.py), the /data link, and the agent process with its session   *)
(* record (src/agent/agent_entrypoint.py).                                 *)
(***************************************************************************)
SessionIds == {"sess-" \o ToString(i) : i \in 1..NumSessionIds}

\* exit codes of git clone
CloneExitCodes == {0, 128}

\* a sandbox fresh from the image: no working copy, no /data
EmptyFs == [repo |-> FALSE, data |-> NoName, installs |-> 0]

NoSessions == [n \in SessionNames |-> Absent]
NoFile == [exists |-> FALSE, sessions |-> NoSessions]

\* the directories of the shared volume mounted at /workspace
VolumeDirs == {<<"workspace">> \o name : name \in SessionNames}

\* fault: the data directory is outside the shared volume
DataDirMutant(name) == <<"tmp">> \o name
\* data_dir = (VOL_MOUNT_PATH / sandbox_name).as_posix()
DataDir(name) == <<"workspace">> \o name

\* /data/sessions.json as the agent sees it through the link; a path off the
\* volume holds nothing that outlives the process
SessionsFile(dir) == IF dir \in VolumeDirs THEN volume[dir] ELSE NoFile

\* load_session_id: None without a file, else sessions.get(sandbox_name)
load_session_id(file, name) == IF ~ file.exists THEN Absent ELSE file.sessions[name]

\* fault: every entry of the file is set
SetEntryMutant(sessions, name, session_id) == [n \in SessionNames |-> session_id]
\* sessions[sandbox_name] = session_id
SetEntry(sessions, name, session_id) == [sessions EXCEPT ![name] = session_id]

\* fault: the session id is not written
save_session_idMutant(file, name, session_id) == file
\* save_session_id: read the whole file, set one entry, write it back
save_session_id(file, name, session_id) ==
    [exists |-> TRUE,
     sessions |-> SetEntry(IF file.exists THEN file.sessions ELSE NoSessions,
                           name, session_id)]

\* fault: a failed clone is taken for a successful one
CloneFailedMutant(code) == FALSE
\* if exit_code != 0: log the failure and return
CloneFailed(code) == code # 0

\* fault: a failed clone ends the call with an exception
AfterCloneFailureMutant == "raised"
\* logger.error(...); return: process_message goes on to the /data link
AfterCloneFailure == "link"

\* fault: a failed clone leaves a .git directory behind
CloneLeavesRepoMutant(code) == TRUE
\* git clone creates /app/OracleLoop/.git when it succeeds and removes what
\* it created when it fails
CloneLeavesRepo(code) == code = 0

\* clone_or_update_repo(sb), after setup_github_ssh(sb)
Bootstrap(h) ==
    /\ pc[h] = "turn"
    /\ IF fs[sb[h]].repo
       THEN /\ bootLog' = [bootLog EXCEPT ![h] = <<"test", "pull">>]
            /\ clone_exit_code' = [clone_exit_code EXCEPT ![h] = RcNone]
            /\ pc' = [pc EXCEPT ![h] = "link"]
            /\ UNCHANGED fs
       ELSE \E code \in CloneExitCodes :
            /\ clone_exit_code' = [clone_exit_code EXCEPT ![h] = code]
            /\ IF CloneFailed(code)
               THEN /\ bootLog' = [bootLog EXCEPT ![h] = <<"test", "clone">>]
                    /\ fs' = [fs EXCEPT ![sb[h]].repo = CloneLeavesRepo(code)]
                    /\ pc' = [pc EXCEPT ![h] = AfterCloneFailure]
               ELSE /\ bootLog' = [bootLog EXCEPT ![h] = <<"test", "clone", "uv sync">>]
                    /\ fs' = [fs EXCEPT ![sb[h]].repo = CloneLeavesRepo(code),
                                        ![sb[h]].installs =
                                            IF @ < MaxInstallsCounted THEN @ + 1 ELSE @]
                    /\ pc' = [pc EXCEPT ![h] = "link"]
    /\ UNCHANGED <<sandboxes, processed_events, event_id, sandbox_name, sb, is_new_session,
                   posted, viaFallback>>
    /\ UNCHANGED <<volume, resume, result_session_id, returned, savedIn>>
    /\ UNCHANGED <<proxyVars, turnVars, eventVars>>

\* mkdir -p {data_dir} && ln -sf {data_dir} /data: the first call creates the
\* link; later calls find /data resolving to the directory and only place a
\* link inside it
Link(h) ==
    /\ pc[h] = "link"
    /\ fs' = [fs EXCEPT ![sb[h]].data =
                    IF @ = NoName THEN DataDir(sandbox_name[h]) ELSE @]
    /\ pc' = [pc EXCEPT ![h] = "agent"]
    /\ UNCHANGED <<sandboxes, processed_events, event_id, sandbox_name, sb, is_new_session,
                   posted, viaFallback>>
    /\ UNCHANGED <<volume, clone_exit_code, bootLog, resume, result_session_id,
                   returned, savedIn>>
    /\ UNCHANGED <<proxyVars, turnVars, eventVars>>

\* run_agent_turn starts the agent: session_id = load_session_id(sandbox_name),
\* passed on as resume=session_id
AgentLoad(h) ==
    /\ pc[h] = "agent"
    /\ resume' = [resume EXCEPT ![h] =
                    load_session_id(SessionsFile(fs[sb[h]].data), sandbox_name[h])]
    /\ pc' = [pc EXCEPT ![h] = "running"]
    /\ UNCHANGED <<sandboxes, processed_events, event_id, sandbox_name, sb, is_new_session,
                   posted, viaFallback>>
    /\ UNCHANGED <<fs, volume, clone_exit_code, bootLog, result_session_id,
                   returned, savedIn>>
    /\ UNCHANGED <<proxyVars, turnVars, eventVars>>

\* the agent receives its ResultMessage: save_session_id(sandbox_name,
\* msg.session_id), and the turn ends
AgentResult(h) ==
    /\ pc[h] = "running"
    /\ \E session_id \in SessionIds :
        /\ volume' = [dir \in VolumeDirs |->
                        IF dir = fs[sb[h]].data
                        THEN save_session_id(volume[dir], sandbox_name[h], session_id)
                        ELSE volume[dir]]
        /\ result_session_id' = [result_session_id EXCEPT ![h] = session_id]
        /\ returned' = [returned EXCEPT ![sandbox_name[h]] = session_id]
    /\ savedIn' = [savedIn EXCEPT ![sandbox_name[h]] = sb[h]]
    /\ pc' = [pc EXCEPT ![h] = "done"]
    /\ UNCHANGED <<sandboxes, processed_events, event_id, sandbox_name, sb, is_new_session,
                   posted, viaFallback>>
    /\ UNCHANGED <<fs, clone_exit_code, bootLog, resume>>
    /\ UNCHANGED <<proxyVars, turnVars, eventVars>>

\* the agent process ends before any ResultMessage
AgentFail(h) ==
    /\ pc[h] = "running"
    /\ pc' = [pc EXCEPT ![h] = "done"]
    /\ UNCHANGED <<sandboxes, processed_events, event_id, sandbox_name, sb, is_new_session,
                   posted, viaFallback>>
    /\ UNCHANGED sessionVars
    /\ UNCHANGED <<proxyVars, turnVars, eventVars>>

\* process_message returns; the thread takes the next event
Return(h) ==
    /\ pc[h] \in {"done", "skipped"}
    /\ pc' = [pc EXCEPT ![h] = "idle"]
    /\ event_id' = [event_id EXCEPT ![h] = ""]
    /\ sandbox_name' = [sandbox_name EXCEPT ![h] = NoName]
    /\ sb' = [sb EXCEPT ![h] = NotFound]
    /\ is_new_session' = [is_new_session EXCEPT ![h] = FALSE]
    /\ posted' = [posted EXCEPT ![h] = ""]
    /\ clone_exit_code' = [clone_exit_code EXCEPT ![h] = RcNone]
    /\ bootLog' = [bootLog EXCEPT ![h] = <<>>]
    /\ resume' = [resume EXCEPT ![h] = Absent]
    /\ result_session_id' = [result_session_id EXCEPT ![h] = Absent]
    /\ UNCHANGED <<sandboxes, processed_events, viaFallback>>
    /\ UNCHANGED <<fs, volume, returned, savedIn>>
    /\ UNCHANGED <<proxyVars, turnVars, eventVars>>

\* idle_timeout: the platform ends a sandbox in which no call is at work;
\* its filesystem goes with it, the shared volume stays
ReclaimIdle(id) ==
    /\ \A h \in Handlers : pc[h] = "idle"
    /\ id \in SandboxIds
    /\ Running(id)
    /\ sandboxes' = [sandboxes EXCEPT ![id].returncode = TerminatedCode]
    /\ fs' = [fs EXCEPT ![id] = EmptyFs]
    /\ UNCHANGED <<volume, clone_exit_code, bootLog, resume, result_session_id,
                   returned, savedIn>>
    /\ UNCHANGED <<brokerVars, proxyVars, turnVars, eventVars>>

(***************************************************************************)
(* proxy, src/proxy.py. The handler keeps nothing between requests, so one *)
(* request at a time is followed from its arrival to its response; the     *)
(* platform may end sandboxes at any point in between.                     *)
(***************************************************************************)
Methods == {"GET", "POST", "PUT", "DELETE", "PATCH", "OPTIONS", "HEAD"}
Paths == {"v1/messages", "v1/models"}
RequestBodies == {"", "{q}"}
HeaderNames == {"host", "content-length", "x-api-key", "anthropic-version"}

\* object_id of the sandbox at index id
ObjectId(id) == "sb-" \o ToString(id)
UnknownToken == "sb-0"
Tokens == {ObjectId(id) : id \in 1..NumThreads} \cup {UnknownToken}

\* os.environ["ANTHROPIC_API_KEY"] of the proxy process
ANTHROPIC_API_KEY == "sk-ant-real"

UpstreamHost == "https://api.anthropic.com/"

InboundHeaders ==
    {[k \in HeaderNames |->
        CASE k = "host" -> hst
          [] k = "content-length" -> len
          [] k = "x-api-key" -> key
          [] OTHER -> ver] :
        hst \in {Absent, "proxy.modal.run"}, len \in {Absent, "3"},
        key \in Tokens \cup {Absent}, ver \in {Absent, "2023-06-01"}}

Requests == [method : Methods, path : Paths, headers : InboundHeaders, body : RequestBodies]

UpstreamReplies ==
    [status_code : {200, 429},
     content : {"{ok}", "event: x"},
     content_type : {"application/json", "text/event-stream"}]

\* headers = {k: v for k, v in request.headers.items()
\*            if k.lower() not in ("host", "content-length")}
StripHeaders(hdrs) ==
    [k \in HeaderNames |-> IF k \in {"host", "content-length"} THEN Absent ELSE hdrs[k]]

\* modal.Sandbox.from_id: the sandbox with that object id, running or not
from_id(token) ==
    IF \E id \in SandboxIds : ObjectId(id) = token
    THEN CHOOSE id \in SandboxIds : ObjectId(id) = token
    ELSE NotFound

\* fault: the returncode is not looked at
ReturncodeCheckMutant(id) == FALSE
\* if sb.returncode is not None: raise HTTPException(status_code=403, ...)
ReturncodeCheck(id) == sandboxes[id].returncode # RcNone

\* fault: the caller's token is left in place
SubstituteKeyMutant(hdrs) == hdrs
\* headers["x-api-key"] = os.environ["ANTHROPIC_API_KEY"]
SubstituteKey(hdrs) == [hdrs EXCEPT !["x-api-key"] = ANTHROPIC_API_KEY]

\* client.post(f"https://api.anthropic.com/{path}", headers=headers, content=body)
UpstreamRequest(req, hdrs) ==
    [method |-> "POST",
     url |-> UpstreamHost \o req.path,
     headers |-> hdrs,
     content |-> req.body]

\* Response(content=resp.content, status_code=resp.status_code,
\*          media_type="application/json")
MakeResponse(reply) ==
    [status_code |-> reply.status_code,
     content |-> reply.content,
     media_type |-> "application/json"]

\* fault: the denial surfaces as a server error
DeniedMutant(detail) ==
    [status_code |-> 500, content |-> detail, media_type |-> "application/json"]
\* raise HTTPException(status_code=403, detail=...)
Denied(detail) ==
    [status_code |-> 403, content |-> detail, media_type |-> "application/json"]

\* a request arrives; the hop-by-hop headers are dropped
ProxyReceive ==
    /\ proxyPc = "idle"
    /\ \E req \in Requests :
        /\ request' = req
        /\ headers' = StripHeaders(req.headers)
        /\ tokenDeadAtReceive' =
              /\ from_id(req.headers["x-api-key"]) # NotFound
              /\ ~Running(from_id(req.headers["x-api-key"]))
    /\ proxyPc' = "resolve"
    /\ UNCHANGED <<upstreamCalls, response>>
    /\ UNCHANGED <<sandboxes, brokerVars, turnVars, sessionVars, eventVars>>

\* sandbox_id = headers.get("x-api-key"); from_id; returncode check;
\* on success the credential header is overwritten
ProxyResolve ==
    /\ proxyPc = "resolve"
    /\ LET sandbox_id == headers["x-api-key"] IN
       IF sandbox_id = Absent
       THEN \* from_id(None): the lookup fails, as NotFoundError or otherwise
            /\ \E status \in {403, 500} :
                response' = [status_code |-> status, content |-> "error",
                             media_type |-> "application/json"]
            /\ proxyPc' = "responded"
            /\ UNCHANGED headers
       ELSE IF from_id(sandbox_id) = NotFound
       THEN /\ response' = Denied("Invalid sandbox ID")
            /\ proxyPc' = "responded"
            /\ UNCHANGED headers
       ELSE IF ReturncodeCheck(from_id(sandbox_id))
       THEN /\ response' = Denied("Sandbox no longer running")
            /\ proxyPc' = "responded"
            /\ UNCHANGED headers
       ELSE /\ headers' = SubstituteKey(headers)
            /\ proxyPc' = "forward"
            /\ UNCHANGED response
    /\ UNCHANGED <<request, upstreamCalls, tokenDeadAtReceive>>
    /\ UNCHANGED <<sandboxes, brokerVars, turnVars, sessionVars, eventVars>>

\* the upstream call and the response built from its reply
ProxyForward ==
    /\ proxyPc = "forward"
    /\ \E reply \in UpstreamReplies :
        /\ upstreamCalls' = Append(upstreamCalls,
                [sent |-> UpstreamRequest(request, headers), reply |-> reply])
        /\ response' = MakeResponse(reply)
    /\ proxyPc' = "responded"
    /\ UNCHANGED <<request, headers, tokenDeadAtReceive>>
    /\ UNCHANGED <<sandboxes, brokerVars, turnVars, sessionVars, eventVars>>

\* the response has been sent; the handler's locals are gone
ProxyReturn ==
    /\ proxyPc = "responded"
    /\ proxyPc' = "idle"
    /\ request' = NoRequest
    /\ headers' = <<>>
    /\ upstreamCalls' = <<>>
    /\ response' = NoResponse
    /\ tokenDeadAtReceive' = FALSE
    /\ UNCHANGED <<sandboxes, brokerVars, turnVars, sessionVars, eventVars>>

(***************************************************************************)
(* run_agent_turn, src/main.py. Text is a sequence of characters; the      *)
(* marker "[LOG]" is kept as one character.                                 *)
(***************************************************************************)
LOG == "[LOG]"
NL == "\n"
ERROR_BANNER == "*** ERROR ***"

StdoutLines ==
    { <<LOG, " ", "a">>, <<LOG, " ", "b">>, <<"hello">>, <<>>, <<" ", "bye", " ">> }

StderrLines ==
    { <<LOG, " ", "x">>, <<"boom">>, <<>>, <<" ", LOG, " ", "y">> }

ExitCodes == {0, 1}

IsSpace(c) == c \in {" ", NL}

RECURSIVE LStrip(_)
LStrip(s) == IF s # <<>> /\ IsSpace(Head(s)) THEN LStrip(Tail(s)) ELSE s

RECURSIVE RStrip(_)
RStrip(s) ==
    IF s # <<>> /\ IsSpace(s[Len(s)]) THEN RStrip(SubSeq(s, 1, Len(s) - 1)) ELSE s

\* str.strip()
Strip(s) == LStrip(RStrip(s))

\* str.split("\n"): always at least one piece
RECURSIVE Split(_)
Split(s) ==
    IF \A i \in 1..Len(s) : s[i] # NL THEN <<s>>
    ELSE LET i == CHOOSE i \in 1..Len(s) : s[i] = NL /\ \A j \in 1..(i - 1) : s[j] # NL
         IN <<SubSeq(s, 1, i - 1)>> \o Split(SubSeq(s, i + 1, Len(s)))

\* "\n".join(lines)
RECURSIVE Join(_)
Join(lines) ==
    IF lines = <<>> THEN <<>>
    ELSE IF Len(lines) = 1 THEN lines[1]
    ELSE lines[1] \o <<NL>> \o Join(Tail(lines))

\* the texts the agent process may leave on stderr, as lists of lines
StderrTexts ==
    UNION {[1..n -> StderrLines] : n \in 0..MaxStderrLines}

\* line.startswith("[LOG]")
StartsWithLog(line) == line # <<>> /\ line[1] = LOG

NotLog(line) == ~StartsWithLog(line)

\* fault: the emptiness test is missing
StdoutFragmentsMutant(line) == <<Strip(line)>>
\* for line in process.stdout: line = line.strip(); if line: yield {"response": line}
StdoutFragments(line) == IF Strip(line) # <<>> THEN <<Strip(line)>> ELSE <<>>

\* fault: the '[LOG]' lines are not filtered out
ErrorLinesMutant(stderr) == Split(Strip(stderr))
\* error_lines = [l for l in stderr.strip().split("\n") if not l.startswith("[LOG]")]
ErrorLines(stderr) == SelectSeq(Split(Strip(stderr)), NotLog)

\* the tail of run_agent_turn, after process.wait() and process.stderr.read()
StderrFragments(stderr, code) ==
    IF stderr # <<>> /\ code # 0 /\ ErrorLines(stderr) # <<>>
    THEN << <<ERROR_BANNER, NL>> \o Join(ErrorLines(stderr)) >>
    ELSE <<>>

\* process = sb.exec(*args)
TurnStart ==
    /\ turnPc = "idle"
    /\ turnPc' = "stdout"
    /\ UNCHANGED <<stdoutRead, stderrRead, exit_code, fragments>>
    /\ UNCHANGED <<sandboxes, brokerVars, proxyVars, sessionVars, eventVars>>

\* one iteration of the loop over process.stdout
TurnStdoutLine ==
    /\ turnPc = "stdout"
    /\ Len(stdoutRead) < MaxStdoutLines
    /\ \E line \in StdoutLines :
        /\ stdoutRead' = Append(stdoutRead, line)
        /\ fragments' = fragments \o StdoutFragments(line)
    /\ UNCHANGED <<turnPc, stderrRead, exit_code>>
    /\ UNCHANGED <<sandboxes, brokerVars, proxyVars, sessionVars, eventVars>>

\* stdout closes: exit_code = process.wait(); stderr = process.stderr.read()
TurnExit ==
    /\ turnPc = "stdout"
    /\ \E code \in ExitCodes, lines \in StderrTexts, trailing \in {<<>>, <<NL>>} :
        /\ exit_code' = code
        /\ stderrRead' = Join(lines) \o trailing
        /\ fragments' = fragments \o StderrFragments(Join(lines) \o trailing, code)
    /\ turnPc' = "done"
    /\ UNCHANGED stdoutRead
    /\ UNCHANGED <<sandboxes, brokerVars, proxyVars, sessionVars, eventVars>>

(***************************************************************************)
(* The Slack listeners of slack_bot, src/main.py. One event at a time is   *)
(* followed from its arrival to the return of its listener. A text is the  *)
(* sequence of its words.                                                  *)
(***************************************************************************)
\* context.bot_user_id
BotUserId == "U0BOT"

\* f"<@{context.bot_user_id}>"
BotMention == "<@" \o BotUserId \o ">"

Texts == {<<"hi">>, <<BotMention, "hi">>, <<"<@U1>", "hi">>}

\* f"<@{context.bot_user_id}>" in text
Mentions(text) == \E i \in 1..Len(text) : text[i] = BotMention

Events ==
    [subtype : {Absent, "bot_message", "thread_broadcast"},
     bot_id : {Absent, "B1"},
     thread_ts : Timestamps \cup {Absent},
     text : Texts]

NoEvent == [subtype |-> Absent, bot_id |-> Absent, thread_ts |-> Absent, text |-> <<>>]

\* what client.conversations_replies(ts=thread_ts, limit=1) gives: an
\* exception, a reply without messages, or the first message of the thread
NoHistory == [ok |-> FALSE, messages |-> <<>>]
Replies(thread_ts) ==
    {NoHistory, [ok |-> TRUE, messages |-> <<>>], [ok |-> TRUE, messages |-> <<roots[thread_ts]>>]}

\* fault: messages of bots are not skipped
SkippedMutant(e) == e.thread_ts = Absent \/ Mentions(e.text)
\* the three early returns of handle_message: bot messages, messages outside
\* a thread, messages that mention the bot
Skipped(e) ==
    \/ e.subtype = "bot_message" \/ e.bot_id # Absent
    \/ e.thread_ts = Absent
    \/ Mentions(e.text)

\* fault: the reply is processed whatever the first message says
RootMentionsMutant(h) == TRUE
\* not (not history.get("messages") or mention not in messages[0].get("text", ""))
RootMentions(h) == h.messages # <<>> /\ Mentions(h.messages[1])

\* a message event arrives at handle_message
HandleMessage ==
    /\ listener = "idle"
    /\ \E e \in Events : event' = e
    /\ kind' = "message"
    /\ listener' = "filter"
    /\ passed' = FALSE
    /\ history' = NoHistory
    /\ UNCHANGED roots
    /\ UNCHANGED <<sandboxes, brokerVars, proxyVars, turnVars, sessionVars>>

\* the early returns of handle_message
HandleMessageFilter ==
    /\ listener = "filter"
    /\ listener' = IF Skipped(event) THEN "returned" ELSE "fetch"
    /\ UNCHANGED <<kind, event, history, passed, roots>>
    /\ UNCHANGED <<sandboxes, brokerVars, proxyVars, turnVars, sessionVars>>

\* try: history = client.conversations_replies(...) / except Exception: return
HandleMessageFetch ==
    /\ listener = "fetch"
    /\ \E reply \in Replies(event.thread_ts) :
        /\ history' = reply
        /\ listener' = IF reply.ok /\ RootMentions(reply) THEN "call" ELSE "returned"
    /\ UNCHANGED <<kind, event, passed, roots>>
    /\ UNCHANGED <<sandboxes, brokerVars, proxyVars, turnVars, sessionVars>>

\* process_message(body, client, user_message), from either listener
HandlerCall ==
    /\ listener = "call"
    /\ passed' = TRUE
    /\ listener' = "returned"
    /\ UNCHANGED <<kind, event, history, roots>>
    /\ UNCHANGED <<sandboxes, brokerVars, proxyVars, turnVars, sessionVars>>

\* an app_mention event arrives at handle_mention, which passes every event on
HandleMention ==
    /\ listener = "idle"
    /\ \E e \in Events : Mentions(e.text) /\ event' = e
    /\ kind' = "app_mention"
    /\ listener' = "call"
    /\ passed' = FALSE
    /\ history' = NoHistory
    /\ UNCHANGED roots
    /\ UNCHANGED <<sandboxes, brokerVars, proxyVars, turnVars, sessionVars>>

\* the listener returns
HandlerReturn ==
    /\ listener = "returned"
    /\ listener' = "idle"
    /\ kind' = ""
    /\ event' = NoEvent
    /\ history' = NoHistory
    /\ passed' = FALSE
    /\ UNCHANGED roots
    /\ UNCHANGED <<sandboxes, brokerVars, proxyVars, turnVars, sessionVars>>

(***************************************************************************)
(* Rest states of the parts a specification does not exercise.             *)
(***************************************************************************)
BrokerIdle ==
    /\ processed_events = {}
    /\ pc = [h \in Handlers |-> "idle"]
    /\ event_id = [h \in Handlers |-> ""]
    /\ sandbox_name = [h \in Handlers |-> NoName]
    /\ sb = [h \in Handlers |-> NotFound]
    /\ is_new_session = [h \in Handlers |-> FALSE]
    /\ posted = [h \in Handlers |-> ""]
    /\ viaFallback = [h \in Handlers |-> FALSE]

ProxyIdle ==
    /\ proxyPc = "idle"
    /\ request = NoRequest
    /\ headers = <<>>
    /\ upstreamCalls = <<>>
    /\ response = NoResponse
    /\ tokenDeadAtReceive = FALSE

TurnIdle ==
    /\ turnPc = "idle"
    /\ stdoutRead = <<>>
    /\ stderrRead = <<>>
    /\ exit_code = 0
    /\ fragments = <<>>

SessionIdle ==
    /\ fs = [id \in 1..MaxSandboxes |-> EmptyFs]
    /\ volume = [dir \in VolumeDirs |-> NoFile]
    /\ clone_exit_code = [h \in Handlers |-> RcNone]
    /\ bootLog = [h \in Handlers |-> <<>>]
    /\ resume = [h \in Handlers |-> Absent]
    /\ result_session_id = [h \in Handlers |-> Absent]
    /\ returned = [n \in SessionNames |-> Absent]
    /\ savedIn = [n \in SessionNames |-> NotFound]

EventIdle ==
    /\ listener = "idle"
    /\ kind = ""
    /\ event = NoEvent
    /\ history = NoHistory
    /\ passed = FALSE
    /\ roots = [ts \in Timestamps |-> <<>>]

(***************************************************************************)
(* Spec: the message handlers and the platform. No sandbox exists at the   *)
(* start; every handler serves one inbound event, and its call is followed *)
(* until it holds its sandbox and has posted the status. What a call does  *)
(* after that is followed in SpecSession.                                  *)
(***************************************************************************)
Init ==
    /\ sandboxes = <<>>
    /\ BrokerIdle
    /\ ProxyIdle
    /\ TurnIdle
    /\ SessionIdle
    /\ EventIdle

Next ==
    \/ \E h \in Handlers : Dedup(h)
    \/ \E h \in Handlers : DedupAdd(h)
    \/ \E h \in Handlers : DedupBound(h)
    \/ \E h \in Handlers : Lookup(h)
    \/ \E h \in Handlers : Create(h)
    \/ \E h \in Handlers : Fallback(h)
    \/ \E h \in Handlers : PostStatus(h)
    \/ \E id \in 1..MaxSandboxes : Reclaim(id)

Spec == Init /\ [][Next]_vars

(***************************************************************************)
(* SpecFull: the same handlers in a process that has been up for a while:  *)
(* the identities of 999 earlier events are in _processed_events, their    *)
(* calls have returned and their sandboxes are gone.                       *)
(***************************************************************************)
EarlierEvents == {"e" \o ToString(i) : i \in 1..(MaxProcessedEvents - 1)}

InitFull ==
    /\ sandboxes = <<>>
    /\ processed_events = EarlierEvents
    /\ pc = [h \in Handlers |-> "idle"]
    /\ event_id = [h \in Handlers |-> ""]
    /\ sandbox_name = [h \in Handlers |-> NoName]
    /\ sb = [h \in Handlers |-> NotFound]
    /\ is_new_session = [h \in Handlers |-> FALSE]
    /\ posted = [h \in Handlers |-> ""]
    /\ viaFallback = [h \in Handlers |-> FALSE]
    /\ ProxyIdle
    /\ TurnIdle
    /\ SessionIdle
    /\ EventIdle

SpecFull == InitFull /\ [][Next]_vars

(***************************************************************************)
(* SpecProxy: every thread has had its sandbox created; requests arrive    *)
(* at the proxy while the platform ends sandboxes.                         *)
(***************************************************************************)
InitProxy ==
    /\ sandboxes = [id \in 1..NumThreads |->
            [name |-> <<"oracle", "T1", ThreadTimestamp(id)>>,
             owner |-> <<"oracle", "T1", ThreadTimestamp(id)>>,
             returncode |-> RcNone]]
    /\ BrokerIdle
    /\ ProxyIdle
    /\ TurnIdle
    /\ SessionIdle
    /\ EventIdle

NextProxy ==
    \/ ProxyReceive
    \/ ProxyResolve
    \/ ProxyForward
    \/ ProxyReturn
    \/ \E id \in 1..NumThreads : Reclaim(id)

SpecProxy == InitProxy /\ [][NextProxy]_vars

(***************************************************************************)
(* SpecTurn: one agent turn; the process writes any lines to stdout, then  *)
(* exits with any code and any stderr text.                                *)
(***************************************************************************)
InitTurn ==
    /\ sandboxes = <<>>
    /\ BrokerIdle
    /\ ProxyIdle
    /\ TurnIdle
    /\ SessionIdle
    /\ EventIdle

NextTurn ==
    \/ TurnStart
    \/ TurnStdoutLine
    \/ TurnExit

SpecTurn == InitTurn /\ [][NextTurn]_vars

(***************************************************************************)
(* SpecSession: one thread of the handlers serves one event after the      *)
(* other, each call followed to its end; between calls the platform may    *)
(* reclaim sandboxes. The calls never overlap, so a creation never meets   *)
(* AlreadyExistsError here.                                                *)
(***************************************************************************)
SerialHandler == 1

InitSession ==
    /\ sandboxes = <<>>
    /\ BrokerIdle
    /\ ProxyIdle
    /\ TurnIdle
    /\ SessionIdle
    /\ EventIdle

NextSession ==
    \/ Dedup(SerialHandler)
    \/ DedupAdd(SerialHandler)
    \/ DedupBound(SerialHandler)
    \/ Lookup(SerialHandler)
    \/ Create(SerialHandler)
    \/ PostStatus(SerialHandler)
    \/ Bootstrap(SerialHandler)
    \/ Link(SerialHandler)
    \/ AgentLoad(SerialHandler)
    \/ AgentResult(SerialHandler)
    \/ AgentFail(SerialHandler)
    \/ Return(SerialHandler)
    \/ \E id \in 1..MaxSandboxes : ReclaimIdle(id)

SpecSession == InitSession /\ [][NextSession]_vars

(***************************************************************************)
(* SpecEvents: events arrive at the two Slack listeners; the first message *)
(* of every thread is any text.                                            *)
(***************************************************************************)
InitEvents ==
    /\ sandboxes = <<>>
    /\ BrokerIdle
    /\ ProxyIdle
    /\ TurnIdle
    /\ SessionIdle
    /\ listener = "idle"
    /\ kind = ""
    /\ event = NoEvent
    /\ history = NoHistory
    /\ passed = FALSE
    /\ roots \in [Timestamps -> Texts]

NextEvents ==
    \/ HandleMessage
    \/ HandleMessageFilter
    \/ HandleMessageFetch
    \/ HandleMention
    \/ HandlerCall
    \/ HandlerReturn

SpecEvents == InitEvents /\ [][NextEvents]_vars

(***************************************************************************)
(* Properties of the session broker, checked under Spec.                   *)
(***************************************************************************)
StartedFor(name) == {h \in Handlers : pc[h] \notin {"idle", "skipped"} /\ sandbox_name[h] = name}

OwnedBy(name) == {id \in SandboxIds : sandboxes[id].owner = name}

NeverReclaimed(name) == \A id \in OwnedBy(name) : Running(id)

AllResolved(name) ==
    /\ StartedFor(name) # {}
    /\ \A h \in StartedFor(name) : pc[h] \in {"turn", "done"}

\* C1: when all the calls made for one thread identity, in any interleaving,
\* have resolved their sandbox and the platform has not reclaimed a sandbox of
\* that identity meanwhile, exactly one sandbox was created for it, every call
\* holds that sandbox, exactly one call reports is_new and posted 'New sandbox',
\* and all the others posted 'Reusing sandbox'.
C1_OneCreatorManyReusers ==
    \A name \in SessionNames :
        (AllResolved(name) /\ NeverReclaimed(name)) =>
            /\ Cardinality(OwnedBy(name)) = 1
            /\ \A h \in StartedFor(name) : sb[h] \in OwnedBy(name)
            /\ Cardinality({h \in StartedFor(name) : is_new_session[h]}) = 1
            /\ Cardinality({h \in StartedFor(name) : posted[h] = "New sandbox"}) = 1
            /\ \A h \in StartedFor(name) :
                   posted[h] = IF is_new_session[h] THEN "New sandbox" ELSE "Reusing sandbox"

\* the calls raced for one identity: one of them lost the creation and went
\* through the fallback lookup
C1_Witness ==
    \E name \in SessionNames :
        /\ AllResolved(name)
        /\ NeverReclaimed(name)
        /\ Cardinality(StartedFor(name)) >= 2
        /\ \E h \in StartedFor(name) : viaFallback[h] /\ posted[h] = "Reusing sandbox"
        /\ \E h \in StartedFor(name) : ~viaFallback[h] /\ posted[h] = "New sandbox"

\* C2: when a call starts its lookup for an identity after an earlier call
\* for the same identity has resolved, and the earlier call's sandbox is still
\* running, the lookup returns that same sandbox, is_new stays false and no
\* sandbox is created.
C2_SequentialSameSandbox ==
    [][ \A p \in Handlers, q \in Handlers :
          ( /\ pc[q] = "lookup"
            /\ pc'[q] # "lookup"
            /\ pc[p] \in Resolved
            /\ sandbox_name[p] = sandbox_name[q]
            /\ Running(sb[p]) ) =>
              /\ pc'[q] = "status"
              /\ sb'[q] = sb[p]
              /\ ~is_new_session'[q]
              /\ sandboxes' = sandboxes ]_vars

\* the first call created the sandbox; the second one found it by its first
\* lookup, hence after the creation, and reuses it
C2_Witness ==
    \E p \in Handlers, q \in Handlers :
        /\ p # q
        /\ pc[p] = "turn"
        /\ pc[q] = "turn"
        /\ sandbox_name[p] = sandbox_name[q]
        /\ is_new_session[p]
        /\ ~viaFallback[q]
        /\ Running(sb[p])
        /\ sb[q] = sb[p]
        /\ posted[q] = "Reusing sandbox"
        /\ Cardinality(OwnedBy(sandbox_name[q])) = 1

\* C3: in every reachable state every session identity has at most one
\* running sandbox.
C3_AtMostOneRunningPerIdentity ==
    \A name \in SessionNames :
        Cardinality({id \in OwnedBy(name) : Running(id)}) <= 1

\* an identity whose first sandbox was reclaimed and which runs a second
\* one: one call still holds the reclaimed sandbox, another the running one
C3_Witness ==
    \E name \in SessionNames :
        \E h \in StartedFor(name), g \in StartedFor(name) :
            /\ pc[h] \in Resolved
            /\ pc[g] \in Resolved
            /\ ~Running(sb[h])
            /\ Running(sb[g])
            /\ sandboxes[sb[h]].owner = name
            /\ sandboxes[sb[g]].owner = name

(***************************************************************************)
(* Properties of the proxy, checked under SpecProxy.                       *)
(***************************************************************************)
Credential == request.headers["x-api-key"]

Responded == proxyPc = "responded"

Forwarded == Responded /\ Len(upstreamCalls) > 0

\* C4: a request whose credential names no sandbox, or a sandbox that had
\* terminated when the request arrived, is answered 403 and no request at
\* all goes upstream.
C4_FailsClosed ==
    ( /\ Responded
      /\ Credential # Absent
      /\ (from_id(Credential) = NotFound \/ tokenDeadAtReceive) ) =>
        /\ response.status_code = 403
        /\ upstreamCalls = <<>>

C4_WitnessUnknown ==
    /\ Responded
    /\ Credential = UnknownToken
    /\ response.status_code = 403
    /\ upstreamCalls = <<>>

\* C5: a terminated sandbox stays terminated, and every resolution of a
\* token whose sandbox is terminated ends the request with 403 and without
\* an upstream call.
C5_RevocationIsAutomatic ==
    [][ /\ \A id \in SandboxIds : ~Running(id) => (id \in SandboxIds' /\ ~Running(id)')
        /\ ( /\ proxyPc = "resolve"
             /\ proxyPc' # "resolve"
             /\ Credential # Absent
             /\ from_id(Credential) # NotFound
             /\ ~Running(from_id(Credential)) ) =>
               /\ proxyPc' = "responded"
               /\ response'.status_code = 403
               /\ upstreamCalls' = <<>> ]_vars

\* the sandbox was reclaimed before the request and the request was denied
C5_Witness ==
    /\ Responded
    /\ tokenDeadAtReceive
    /\ ~Running(from_id(Credential))
    /\ response = Denied("Sandbox no longer running")
    /\ upstreamCalls = <<>>

\* C6: a request whose credential is the id of a running sandbox causes
\* exactly one upstream request, which carries the real secret instead of the
\* caller's token, and the caller receives the upstream's status and body.
C6_ExchangeAndRelay ==
    ( /\ Responded
      /\ Credential # Absent
      /\ from_id(Credential) # NotFound
      /\ Running(from_id(Credential)) ) =>
        /\ Len(upstreamCalls) = 1
        /\ upstreamCalls[1].sent.headers["x-api-key"] = ANTHROPIC_API_KEY
        /\ upstreamCalls[1].sent.headers["x-api-key"] # Credential
        /\ response.status_code = upstreamCalls[1].reply.status_code
        /\ response.content = upstreamCalls[1].reply.content

C6_Witness ==
    /\ Forwarded
    /\ Running(from_id(Credential))
    /\ upstreamCalls[1].reply.status_code = 429
    /\ response.status_code = 429
    /\ upstreamCalls[1].sent.headers["x-api-key"] = ANTHROPIC_API_KEY

\* C7: an authorized request goes upstream with the inbound method, path
\* and body, and with every inbound header other than host, content-length
\* and the credential unchanged.
C7_ForwardedVerbatim ==
    Forwarded =>
        /\ upstreamCalls[1].sent.method = request.method
        /\ upstreamCalls[1].sent.url = UpstreamHost \o request.path
        /\ upstreamCalls[1].sent.content = request.body
        /\ upstreamCalls[1].sent.headers["host"] = Absent
        /\ upstreamCalls[1].sent.headers["content-length"] = Absent
        /\ \A k \in HeaderNames \ {"host", "content-length", "x-api-key"} :
               upstreamCalls[1].sent.headers[k] = request.headers[k]

\* C8: the content type returned to the caller of an authorized request is
\* the content type of the upstream's reply.
C8_ContentTypeRelayed ==
    Forwarded => response.media_type = upstreamCalls[1].reply.content_type

(***************************************************************************)
(* Properties of the turn executor, checked under SpecTurn.                *)
(***************************************************************************)
IsErrorFragment(f) == f # <<>> /\ f[1] = ERROR_BANNER

IsResponseFragment(f) == ~IsErrorFragment(f)

ResponseOut == SelectSeq(fragments, IsResponseFragment)

ErrorOut == SelectSeq(fragments, IsErrorFragment)

StrippedAll(lines) == [i \in 1..Len(lines) |-> Strip(lines[i])]

NonEmpty(line) == line # <<>>

NonEmptyNotLog(line) == line # <<>> /\ ~StartsWithLog(line)

\* the lines of an error fragment, after its banner line
BodyLines(f) == Split(SubSeq(f, 3, Len(f)))

\* the lines of a text as written: a final newline ends the last line
WrittenLines(text) ==
    IF text = <<>> THEN <<>>
    ELSE IF text[Len(text)] = NL THEN Split(SubSeq(text, 1, Len(text) - 1))
    ELSE Split(text)

TheExampleStdout == << <<LOG, " ", "a">>, <<"hello">>, <<LOG, " ", "b">> >>

MarkedLiteral(line) == StartsWithLog(line)

\* a line counts as marked when '[LOG]' is its first non-blank content
MarkedIndented(line) == StartsWithLog(LStrip(line))

ContentLiteral(line) == Strip(line) # <<>> /\ ~MarkedLiteral(line)

ContentIndented(line) == Strip(line) # <<>> /\ ~MarkedIndented(line)

NonBlank(line) == Strip(line) # <<>>

OneErrorFragmentLast ==
    /\ Len(ErrorOut) = 1
    /\ IsErrorFragment(fragments[Len(fragments)])

\* C10, as claimed, reading 'starting with [LOG]' to the letter
C10_ReadLiteral ==
    ( /\ turnPc = "done"
      /\ exit_code # 0
      /\ \E i \in 1..Len(WrittenLines(stderrRead)) : ContentLiteral(WrittenLines(stderrRead)[i]) ) =>
        /\ OneErrorFragmentLast
        /\ StrippedAll(SelectSeq(BodyLines(fragments[Len(fragments)]), NonBlank))
             = StrippedAll(SelectSeq(WrittenLines(stderrRead), ContentLiteral))
        /\ \A i \in 1..Len(BodyLines(fragments[Len(fragments)])) :
               ~MarkedLiteral(BodyLines(fragments[Len(fragments)])[i])

\* C10, as claimed, reading '[LOG]-marked' as marked after indentation
C10_ReadIndented ==
    ( /\ turnPc = "done"
      /\ exit_code # 0
      /\ \E i \in 1..Len(WrittenLines(stderrRead)) : ContentIndented(WrittenLines(stderrRead)[i]) ) =>
        /\ OneErrorFragmentLast
        /\ StrippedAll(SelectSeq(BodyLines(fragments[Len(fragments)]), NonBlank))
             = StrippedAll(SelectSeq(WrittenLines(stderrRead), ContentIndented))
        /\ \A i \in 1..Len(BodyLines(fragments[Len(fragments)])) :
               ~MarkedIndented(BodyLines(fragments[Len(fragments)])[i])

NoContent(line) == Strip(line) = <<>> \/ StartsWithLog(line)

\* C11: on a nonzero exit with a stderr that is empty or holds only
\* '[LOG]' lines and blank lines, no error fragment is emitted.
C11_NoErrorFragmentWithoutContent ==
    ( /\ turnPc = "done"
      /\ exit_code # 0
      /\ \A i \in 1..Len(WrittenLines(stderrRead)) : NoContent(WrittenLines(stderrRead)[i]) ) =>
        ErrorOut = <<>>

\* C12: deliveries of one event identity, sequential or overlapping, lead to
\* one sandbox resolution and one agent invocation: a call that passed the
\* membership test, and so goes on to resolve a sandbox and run the agent,
\* never finds at its add that another call has put the identity in the set.
\* The set is never cleared here, so every delivery is within the window.
C12_OneInvocationPerEvent ==
    [][\A h \in Handlers :
        (pc[h] = "add" /\ pc'[h] # "add") => event_id[h] \notin processed_events
      ]_vars

\* the session id the last ResultMessage of the session carried is the one
\* on record for it
OnRecord(name) ==
    /\ SessionsFile(<<"workspace">> \o name).exists
    /\ SessionsFile(<<"workspace">> \o name).sessions[name] = returned[name]

\* C13: the session id a successful turn returned is stored under its
\* session, and the next turn of that session, run after it, resumes with
\* exactly that id; a session without a successful turn resumes with none.
C13_ResumeIsLastReturned ==
    /\ \A name \in SessionNames : returned[name] # Absent => OnRecord(name)
    /\ \A h \in Handlers :
        pc[h] = "running" => resume[h] = returned[sandbox_name[h]]

\* a second turn in the same sandbox resumes the session of the first
C13_Witness ==
    \E h \in Handlers :
        /\ pc[h] = "running"
        /\ resume[h] \in SessionIds
        /\ savedIn[sandbox_name[h]] = sb[h]

\* the sandboxes of a session that the platform has ended
Reclaimed(name) == {id \in OwnedBy(name) : ~ Running(id)}

\* C14: once the sandbox of a thread was reclaimed, a lookup that finds
\* nothing goes on to create (it is no error), and the creation puts a new
\* running sandbox under the same name with is_new_session true, leaving
\* the records of the earlier sandboxes as they were.
C14_ReclaimedIsRecreated ==
    [][\A h \in Handlers :
        LET name == sandbox_name[h] IN
        /\ ( /\ pc[h] = "lookup" /\ pc'[h] # "lookup"
             /\ Reclaimed(name) # {} /\ RunningNamed(name) = {} ) =>
                pc'[h] = "create" /\ is_new_session'[h]
        /\ ( /\ pc[h] = "create" /\ pc'[h] # "create"
             /\ Reclaimed(name) # {} /\ RunningNamed(name) = {} ) =>
                /\ pc'[h] = "status" /\ is_new_session'[h]
                /\ Len(sandboxes') = Len(sandboxes) + 1
                /\ sb'[h] = Len(sandboxes')
                /\ sandboxes'[sb'[h]].name = name
                /\ sandboxes'[sb'[h]].returncode = RcNone
                /\ \A id \in SandboxIds : sandboxes'[id] = sandboxes[id]
      ]_vars

\* a call holds a new sandbox of a name whose earlier sandbox was reclaimed
C14_Witness ==
    \E h \in Handlers :
        /\ pc[h] \in Resolved
        /\ is_new_session[h]
        /\ Running(sb[h])
        /\ \E id \in Reclaimed(sandbox_name[h]) : id < sb[h]

\* the step of clone_or_update_repo in call h
BootstrapStep(h) == pc[h] = "turn" /\ pc'[h] # "turn"

\* C15: a failed clone is only logged: the call goes on towards its agent
\* turn, nothing in the sandbox or on the volume changes, and a later call
\* that reuses the sandbox, still without working copy, clones again.
C15_CloneFailureOnlyLogged ==
    [][\A h \in Handlers :
        /\ (BootstrapStep(h) /\ clone_exit_code'[h] \notin {RcNone, 0}) =>
                /\ pc'[h] = "link"
                /\ fs' = fs /\ volume' = volume /\ sandboxes' = sandboxes
        /\ (BootstrapStep(h) /\ ~ is_new_session[h] /\ ~ fs[sb[h]].repo) =>
                bootLog'[h][2] = "clone"
      ]_vars

\* the agent runs in a reused sandbox after this call's clone failed, as
\* the clone of the call before had
C15_Witness ==
    \E h \in Handlers :
        /\ pc[h] = "running"
        /\ ~ is_new_session[h]
        /\ bootLog[h] = <<"test", "clone">>
        /\ clone_exit_code[h] = 128

Commands(log) == {log[i] : i \in 1..Len(log)}

\* C16: clone_or_update_repo clones when the working copy is absent and
\* only pulls when it is present; uv sync runs exactly in the call whose
\* clone succeeds, so at most once per sandbox.
C16_InstallOnlyWithSuccessfulClone ==
    /\ [](\A id \in 1..MaxSandboxes : fs[id].installs <= 1)
    /\ [][\A h \in Handlers : BootstrapStep(h) =>
            /\ fs[sb[h]].repo => bootLog'[h] = <<"test", "pull">>
            /\ ~ fs[sb[h]].repo => bootLog'[h][2] = "clone"
            /\ "uv sync" \in Commands(bootLog'[h]) <=>
                    (~ fs[sb[h]].repo /\ clone_exit_code'[h] = 0)
         ]_vars

\* a call only pulls in a sandbox whose dependencies were installed once
C16_Witness ==
    \E h \in Handlers :
        /\ bootLog[h] = <<"test", "pull">>
        /\ fs[sb[h]].installs = 1

\* C17: after the deduplication of any call the set holds at most 1000
\* identities; the bounding step clears the whole set when it holds more.
C17_SetIsBounded ==
    /\ []((\A h \in Handlers : pc[h] # "bound") => Cardinality(processed_events) <= 1000)
    /\ [][\A h \in Handlers : (pc[h] = "bound" /\ pc'[h] # "bound") =>
            processed_events' =
                IF Cardinality(processed_events) > 1000 THEN {} ELSE processed_events
         ]_vars

\* the set was cleared, together with the identity of the call that is now
\* past its deduplication
C17_Witness ==
    \E h \in Handlers :
        /\ pc[h] = "lookup"
        /\ processed_events = {}

\* a message of a person that does not mention the bot
Eligible(e) == e.subtype # "bot_message" /\ e.bot_id = Absent /\ ~ Mentions(e.text)

\* C18: an eligible thread reply whose thread's first message was fetched
\* reaches process_message exactly if that message mentions the bot; a
\* message outside a thread never does, nor does a reply whose fetch failed
\* or came back empty.
C18_RepliesFollowTheRoot ==
    (kind = "message" /\ listener = "returned") =>
        /\ event.thread_ts = Absent => ~ passed
        /\ (Eligible(event) /\ event.thread_ts # Absent) =>
                IF history.ok /\ history.messages # <<>>
                THEN passed <=> Mentions(roots[event.thread_ts])
                ELSE ~ passed

\* a reply without mention was passed on because its thread began with one
C18_Witness ==
    /\ kind = "message" /\ listener = "returned"
    /\ Eligible(event) /\ event.subtype = "thread_broadcast"
    /\ passed

\* C19: no resolve-or-create ends without a sandbox: no call is left with
\* the NotFoundError of the fallback lookup.
C19_AlwaysHoldsSandbox ==
    \A h \in Handlers : pc[h] # "raised"

\* C20: the first turn in a sandbox recreated for a session resumes with the
\* session id that the last successful turn in the reclaimed sandbox saved.
C20_TokenSurvivesRecreation ==
    \A h \in Handlers :
        LET name == sandbox_name[h] IN
        ( /\ pc[h] = "running"
          /\ savedIn[name] \notin {NotFound, sb[h]} ) =>
            /\ ~ Running(savedIn[name])
            /\ resume[h] \in SessionIds
            /\ resume[h] = returned[name]

\* the agent runs in the new sandbox with the session id of the old one
C20_Witness ==
    \E h \in Handlers :
        /\ pc[h] = "running"
        /\ is_new_session[h]
        /\ savedIn[sandbox_name[h]] \in Reclaimed(sandbox_name[h])
        /\ resume[h] \in SessionIds

\* the agent process of call h ends
AgentEnds(h) == pc[h] = "running" /\ pc'[h] = "done"

\* C21: a turn that ends without a ResultMessage leaves every sessions.json
\* as it was; a turn that ends with one changes at most the entry of its own
\* session in the file of its own session.
C21_OnlyOwnEntryChanges ==
    [][\A h \in Handlers : AgentEnds(h) =>
        LET name == sandbox_name[h] IN
        /\ result_session_id'[h] = Absent => volume' = volume
        /\ result_session_id'[h] # Absent =>
            \A dir \in VolumeDirs :
                /\ dir # <<"workspace">> \o name => volume'[dir] = volume[dir]
                /\ \A other \in SessionNames \ {name} :
                        volume'[dir].sessions[other] = volume[dir].sessions[other]
      ]_vars

\* a turn has failed after an earlier turn of the session succeeded, and the
\* session id of the earlier one is still on record
C21_Witness ==
    \E h \in Handlers :
        /\ pc[h] = "done"
        /\ result_session_id[h] = Absent
        /\ returned[sandbox_name[h]] \in SessionIds
        /\ OnRecord(sandbox_name[h])

\* a message posted by a bot, the bot's own status and response posts included
BotAuthored(e) == e.subtype = "bot_message" \/ e.bot_id # Absent

\* C22: a message authored by a bot never gets from handle_message to
\* process_message: the listener returns at its first test, before it
\* fetches the thread or calls anything.
C22_BotMessagesStopAtTheFilter ==
    (kind = "message" /\ BotAuthored(event)) =>
        /\ ~ passed
        /\ listener \in {"filter", "returned"}

\* a bot's post in a thread that began with a mention of the bot, as the
\* bot's own answers are, was dropped
C22_Witness ==
    /\ kind = "message" /\ listener = "returned"
    /\ event.bot_id # Absent
    /\ event.thread_ts # Absent
    /\ ~ Mentions(event.text)
    /\ Mentions(roots[event.thread_ts])
    /\ ~ passed
====
